---- MODULE Spec2Model ----
(***************************************************************************)
(* Shuttle-bus reservation backend (src/src/bin/app.rs): seat allocation,  *)
(* trip status machine with its cancellation cascade, maintenance gate,    *)
(* notification dispatch and the periodic reminder scheduler.              *)
(*                                                                         *)
(* Every `.await` on a storage call or on the outbound webhook is one      *)
(* step.  Reads of tables this program never writes (users, trips'         *)
(* departure, capacity) are folded into the neighbouring step.  A handler *)
(* that returns leaves its response in `out` and is gone, so a run holds   *)
(* any number of requests, MaxRequests of them at a time.                  *)
(***************************************************************************)
EXTENDS Integers, FiniteSets, Sequences, Bags, TLC

(* ------------------------------------------------------------------ *)
(* Bounds of the model                                                 *)
(* ------------------------------------------------------------------ *)
\* create_reservation requests in flight at the same time
MaxRequests == 2
\* tasks spawned by insert_status that are pending at the same time
MaxTasks == 1
\* periodic reminders per trip after which no further failure is injected
MaxReminders == 2

(* ------------------------------------------------------------------ *)
(* Tables this program only reads                                      *)
(* ------------------------------------------------------------------ *)
\* rows of `trips`; NoTrip is an id with no row
Trips == {"t1", "t2"}
NoTrip == "t0"
\* rows of `users` that book; Admin has role = 'admin'; Stranger has no row
Users == {"u1", "u2"}
Admin == "admin"
Stranger == "nobody"
Actors == {Admin, "u1", Stranger}
\* vehicle_types.total_seats reached through trips -> vehicles -> vehicle_types
Capacity(t) == IF t = "t1" THEN 2 ELSE 1
\* trips.departure_datetime, in seconds
Departure(t) == IF t = "t1" THEN 7290 ELSE 7320
\* the instants (seconds) at which the clock is observed
Instants == {0, 60, 120, 7300}
\* INTERVAL '2 hours' of the scheduler's query, in seconds
WindowSeconds == 7200
\* the 120 minutes of the last-minute check
WindowMinutes == 120

StatusInputs == {"scheduled", "delayed", "cancelled", "bogus"}
Descriptions == {"NULL", "text"}
NoRow == [status |-> "scheduled", description |-> "NULL"]
\* reservation_id values: a row's id is named after the booking it was
\* issued for; NoId was never issued
NoId == <<NoTrip, "u1">>
ReservationIds == (Trips \X Users) \cup {NoId}

VARIABLES
    reservations,   \* rows of `reservations`: [id, trip, user, seat]
    overlay,        \* rows of `operational_statuses`, NoRow when absent
    maintenance,    \* app_settings 'maintenance_mode': "true", "false", "absent"
    notified,       \* trips.notification_sent
    now,            \* Local::now()
    webhook,        \* env TEAMS_WEBHOOK_URL: "unset", "empty", "url"
    cr,             \* bag of the create_reservation requests in flight
    tasks,          \* bag of the tasks insert_status spawned, still running
    cron,           \* run_cron_job
    personal,       \* send_personal_reminder tasks spawned and not yet run
    reminders,      \* per trip, the ticks that sent its periodic reminder
    out             \* the last thing sent out: a response, a webhook POST
                    \* or the cascade's closing line

vars == <<reservations, overlay, maintenance, notified, now, webhook,
          cr, tasks, cron, personal, reminders, out>>

(* ------------------------------------------------------------------ *)
(* Queries                                                             *)
(* ------------------------------------------------------------------ *)
RowsOf(t) == {r \in reservations : r.trip = t}

UsersOf(t) == {r.user : r \in RowsOf(t)}

SetMax(S) == CHOOSE x \in S : \A y \in S : y <= x

\* faulty variant: the next seat is the number of rows plus one
NextSeatByCount(t) == Cardinality(RowsOf(t)) + 1

\* SELECT COALESCE(MAX(seat_number), 0) + 1 FROM reservations WHERE trip_id = $1
NextSeat(t) == (IF RowsOf(t) = {} THEN 0 ELSE SetMax({r.seat : r \in RowsOf(t)})) + 1

\* the unique (trip_id, user_id) constraint behind SQLSTATE 23505
UniqueViolation(t, u) == \E r \in reservations : r.trip = t /\ r.user = u

\* RETURNING reservation_id
NewId(t, u) == <<t, u>>

\* faulty variant: a missing row counts as maintenance
MaintenanceFailClosed == maintenance # "false"

\* faulty variant: the helper compares with the wrong literal
MaintenanceWrongLiteral == maintenance = "TRUE"

\* SELECT value FROM app_settings WHERE key = 'maintenance_mode'; r.value == "true"
is_maintenance_mode == maintenance = "true"

\* faulty variant: any user found passes, the role is not compared
IsKnown(actor) == actor # Stranger

\* SELECT role FROM users WHERE user_id = $1; Some(u) if u.role == "admin"
IsAdmin(actor) == actor = Admin

\* COALESCE(os.status, 'scheduled')
StatusOf(t) == overlay[t].status

\* chrono Duration::num_minutes: whole minutes, truncated toward zero
NumMinutes(secs) == IF secs >= 0 THEN secs \div 60 ELSE -((-secs) \div 60)

\* duration.num_seconds() > 0 && duration.num_minutes() <= 120
LastMinute(t, at) ==
    /\ Departure(t) - at > 0
    /\ NumMinutes(Departure(t) - at) <= WindowMinutes

\* departure_datetime > $1 AND departure_datetime <= $1 + INTERVAL '2 hours'
InWindow(t, at) ==
    /\ Departure(t) > at
    /\ Departure(t) <= at + WindowSeconds

\* faulty variant: an empty TEAMS_WEBHOOK_URL passes for a configured sink
WebhookOnlyUnset == webhook = "unset"

\* std::env::var("TEAMS_WEBHOOK_URL").unwrap_or_default().is_empty()
WebhookEmpty == webhook \in {"unset", "empty"}

\* a POST to the webhook: the kind of message, its trip, the users it
\* mentions and whether the sink took it
Message(kind, t, to, delivered) ==
    [op |-> "post", trip |-> t, code |-> kind, to |-> to, ok |-> delivered]

\* the line the cascade prints: the rows it affected, told by their users
Printed(t, rows) ==
    [op |-> "println", trip |-> t, code |-> "deleted",
     to |-> {r.user : r \in rows}, ok |-> TRUE]

\* a handler's response
Response(op, t, code) ==
    [op |-> op, trip |-> t, code |-> code, to |-> {}, ok |-> TRUE]

(* ------------------------------------------------------------------ *)
(* Initial state                                                       *)
(* ------------------------------------------------------------------ *)
IdleCron ==
    [pc |-> "sleep", at |-> 0, rows |-> {}, trip |-> NoTrip, recipients |-> {}]

Init ==
    /\ reservations = {}
    /\ overlay = [t \in Trips |-> NoRow]
    /\ maintenance \in {"true", "false", "absent"}
    /\ notified = [t \in Trips |-> FALSE]
    /\ now = 0
    /\ webhook \in {"unset", "empty", "url"}
    /\ cr = EmptyBag
    /\ tasks = EmptyBag
    /\ cron = IdleCron
    /\ personal = {}
    /\ reminders = [t \in Trips |-> <<>>]
    /\ out = Response("none", NoTrip, "none")

(* ------------------------------------------------------------------ *)
(* create_reservation                                                  *)
(* ------------------------------------------------------------------ *)
\* a request in flight: where it stands, its inputs, the seat it computed
Request(pc, t, u, next_seat) ==
    [pc |-> pc, trip |-> t, user |-> u, next_seat |-> next_seat]

\* request r goes on to its next storage call
Continue(r, pc, next_seat) ==
    /\ cr' = (cr (-) SetToBag({r})) (+)
                SetToBag({Request(pc, r.trip, r.user, next_seat)})
    /\ UNCHANGED out

\* the handler returns: the request is gone and its response is out
Return(r, code) ==
    /\ cr' = cr (-) SetToBag({r})
    /\ out' = Response("create_reservation", r.trip, code)

\* the request arrives and the maintenance gate is read
CreateGate(t, u) ==
    /\ BagCardinality(cr) < MaxRequests
    /\ IF is_maintenance_mode
       THEN /\ out' = Response("create_reservation", t, "ServiceUnavailable")
            /\ UNCHANGED cr
       ELSE /\ cr' = cr (+) SetToBag({Request("trip", t, u, 0)})
            /\ UNCHANGED out
    /\ UNCHANGED <<reservations, overlay, maintenance, notified, now, webhook,
                   tasks, cron, personal, reminders>>

\* if let Some(ref status) = t.status { if status == "cancelled" { 503 } }
IsCancelled(status) == status = "cancelled"

\* trips LEFT JOIN operational_statuses: absent trip, cancelled trip; then
\* the read of vt.total_seats
CreateTripCheck(r) ==
    /\ BagIn(r, cr)
    /\ r.pc = "trip"
    /\ IF r.trip \notin Trips
       THEN Return(r, "NotFound")
       ELSE IF IsCancelled(StatusOf(r.trip))
       THEN Return(r, "ServiceUnavailable")
       ELSE Continue(r, "seat", 0)
    /\ UNCHANGED <<reservations, overlay, maintenance, notified, now, webhook,
                   tasks, cron, personal, reminders>>

\* faulty variant: the comparison lets one seat too many through
SeatExceedsOffByOne(next_seat, capacity) == next_seat > capacity + 1

\* next_seat > capacity
SeatExceeds(next_seat, capacity) == next_seat > capacity

\* read of the next seat number, then the capacity comparison
CreateReadSeat(r) ==
    /\ BagIn(r, cr)
    /\ r.pc = "seat"
    /\ IF SeatExceeds(NextSeat(r.trip), Capacity(r.trip))
       THEN Return(r, "CapacityExceeded")
       ELSE Continue(r, "insert", NextSeat(r.trip))
    /\ UNCHANGED <<reservations, overlay, maintenance, notified, now, webhook,
                   tasks, cron, personal, reminders>>

\* the SQLSTATE of a rejected INSERT, "00000" when the row is added
InsertState(t, u) == IF UniqueViolation(t, u) THEN "23505" ELSE "00000"

\* faulty variant: the handler tests for the foreign-key SQLSTATE instead
InsertErrorWrongState(sqlstate) ==
    IF sqlstate = "23503" THEN "Conflict" ELSE "Internal"

\* db_error.code() == Some("23505") is CONFLICT, any other error is 500
InsertError(sqlstate) == IF sqlstate = "23505" THEN "Conflict" ELSE "Internal"

\* INSERT INTO reservations, then the last-minute check on success
CreateInsert(r) ==
    /\ BagIn(r, cr)
    /\ r.pc = "insert"
    /\ IF InsertState(r.trip, r.user) # "00000"
       THEN /\ Return(r, InsertError(InsertState(r.trip, r.user)))
            /\ UNCHANGED <<reservations, personal>>
       ELSE /\ reservations' = reservations \cup
                   {[id |-> NewId(r.trip, r.user), trip |-> r.trip,
                     user |-> r.user, seat |-> r.next_seat]}
            /\ personal' = IF LastMinute(r.trip, now)
                           THEN personal \cup {[trip |-> r.trip, user |-> r.user]}
                           ELSE personal
            /\ Return(r, "Created")
    /\ UNCHANGED <<overlay, maintenance, notified, now, webhook, tasks, cron,
                   reminders>>

(* ------------------------------------------------------------------ *)
(* send_personal_reminder                                              *)
(* ------------------------------------------------------------------ *)
\* the spawned task: trip and user lookups, then one POST for the one user
PersonalReminder(m, delivered) ==
    /\ m \in personal
    /\ personal' = personal \ {m}
    /\ out' = IF WebhookEmpty
              THEN out
              ELSE Message("personal", m.trip, {m.user}, delivered)
    /\ UNCHANGED <<reservations, overlay, maintenance, notified, now, webhook,
                   cr, tasks, cron, reminders>>

(* ------------------------------------------------------------------ *)
(* cancel_reservation, admin_delete_reservation                        *)
(* ------------------------------------------------------------------ *)
\* faulty variant: cancel_reservation consults the maintenance gate
CancelMatchesGated(id, u) ==
    IF is_maintenance_mode THEN {}
    ELSE {r \in reservations : r.id = id /\ r.user = u}

\* faulty variant: the DELETE misses AND user_id = $2
CancelMatchesAnyOwner(id, u) == {r \in reservations : r.id = id}

\* DELETE FROM reservations WHERE reservation_id = $1 AND user_id = $2
CancelMatches(id, u) == {r \in reservations : r.id = id /\ r.user = u}

cancel_reservation(id, u) ==
    /\ reservations' = reservations \ CancelMatches(id, u)
    /\ out' = Response("cancel_reservation", NoTrip,
                        IF CancelMatches(id, u) = {} THEN "NotFound" ELSE "Ok")
    /\ UNCHANGED <<overlay, maintenance, notified, now, webhook, cr, tasks,
                   cron, personal, reminders>>

\* DELETE FROM reservations WHERE reservation_id = $1
AdminMatches(id) == {r \in reservations : r.id = id}

admin_delete_reservation(id) ==
    /\ reservations' = reservations \ AdminMatches(id)
    /\ out' = Response("admin_delete_reservation", NoTrip,
                        IF AdminMatches(id) = {} THEN "NotFound" ELSE "Ok")
    /\ UNCHANGED <<overlay, maintenance, notified, now, webhook, cr, tasks,
                   cron, personal, reminders>>

(* ------------------------------------------------------------------ *)
(* Maintenance mode                                                    *)
(* ------------------------------------------------------------------ *)
get_maintenance_status ==
    /\ out' = Response("get_maintenance_status", NoTrip,
                        IF is_maintenance_mode THEN "true" ELSE "false")
    /\ UNCHANGED <<reservations, overlay, maintenance, notified, now, webhook,
                   cr, tasks, cron, personal, reminders>>

\* UPDATE app_settings SET value = $1 WHERE key = 'maintenance_mode'
SettingsUpdate(enabled) ==
    IF maintenance = "absent" THEN "absent"
    ELSE IF enabled THEN "true" ELSE "false"

set_maintenance_status(enabled, actor) ==
    /\ IF ~IsAdmin(actor)
       THEN /\ out' = Response("set_maintenance_status", NoTrip, "Forbidden")
            /\ UNCHANGED maintenance
       ELSE /\ maintenance' = SettingsUpdate(enabled)
            /\ out' = Response("set_maintenance_status", NoTrip, "Ok")
    /\ UNCHANGED <<reservations, overlay, notified, now, webhook, cr, tasks,
                   cron, personal, reminders>>

(* ------------------------------------------------------------------ *)
(* insert_status and the task it spawns                                *)
(* ------------------------------------------------------------------ *)
\* faulty variant: a cancellation's task deletes before it notifies
TaskEntryDeleteFirst(status) == IF status = "cancelled" THEN "delete" ELSE "notify"

\* the first statement of the spawned task is send_teams_notification
TaskEntry(status) == "notify"

\* faulty variant: the DELETE follows the notification of every status
AfterNotifyAlways(status) == "delete"

\* after send_teams_notification returns: if status == "cancelled" { DELETE }
AfterNotify(status) == IF status = "cancelled" THEN "delete" ELSE "end"

\* a spawned task: where it stands, what it moved, the users it found and
\* whether send_teams_notification has returned
Task(pc, t, status, recipients, returned) ==
    [pc |-> pc, trip |-> t, status |-> status, recipients |-> recipients,
     returned |-> returned]

\* faulty variant: the task ends with a notification that was not sent
ReturnedIfConfigured(tk) ==
    IF AfterNotify(tk.status) = "end" \/ webhook # "url"
    THEN tasks (-) SetToBag({tk})
    ELSE (tasks (-) SetToBag({tk})) (+)
            SetToBag({Task(AfterNotify(tk.status), tk.trip, tk.status,
                           tk.recipients, TRUE)})

\* the tasks once send_teams_notification has returned in task tk
Returned(tk) ==
    IF AfterNotify(tk.status) = "end"
    THEN tasks (-) SetToBag({tk})
    ELSE (tasks (-) SetToBag({tk})) (+)
            SetToBag({Task(AfterNotify(tk.status), tk.trip, tk.status,
                           tk.recipients, TRUE)})

\* faulty variant: DO UPDATE SET status only, the old description stays
UpsertKeepDescription(t, status, description) ==
    [overlay EXCEPT ![t] = [status |-> status, description |-> @.description]]

\* INSERT INTO operational_statuses ... ON CONFLICT (trip_id) DO UPDATE SET
\* status = EXCLUDED.status, description = EXCLUDED.description
Upsert(t, status, description) ==
    [overlay EXCEPT ![t] = [status |-> status, description |-> description]]

\* faulty variant: every status but "scheduled" is stored
UpsertedAny == StatusInputs \ {"scheduled"}

\* the match arm "delayed" | "cancelled"
Upserted == {"delayed", "cancelled"}

insert_status(actor, t, status, description) ==
    IF ~IsAdmin(actor)
    THEN /\ out' = Response("insert_status", t, "Forbidden")
         /\ UNCHANGED <<reservations, overlay, maintenance, notified, now,
                        webhook, cr, tasks, cron, personal, reminders>>
    ELSE IF status = "scheduled"
    THEN /\ overlay' = [overlay EXCEPT ![t] = NoRow]
         /\ out' = Response("insert_status", t, "Ok")
         /\ UNCHANGED <<reservations, maintenance, notified, now, webhook, cr,
                        tasks, cron, personal, reminders>>
    ELSE IF status \in Upserted
    THEN /\ BagCardinality(tasks) < MaxTasks
         /\ overlay' = Upsert(t, status, description)
         /\ tasks' = tasks (+)
                SetToBag({Task(TaskEntry(status), t, status, {}, FALSE)})
         /\ out' = Response("insert_status", t, "Ok")
         /\ UNCHANGED <<reservations, maintenance, notified, now, webhook, cr,
                        cron, personal, reminders>>
    ELSE /\ out' = Response("insert_status", t, "BadRequest")
         /\ UNCHANGED <<reservations, overlay, maintenance, notified, now,
                        webhook, cr, tasks, cron, personal, reminders>>

\* send_teams_notification up to its recipient query
TaskNotify(tk) ==
    /\ BagIn(tk, tasks)
    /\ tk.pc = "notify"
    /\ tasks' = IF webhook = "unset" \/ UsersOf(tk.trip) = {}
                THEN Returned(tk)
                ELSE (tasks (-) SetToBag({tk})) (+)
                        SetToBag({Task("post", tk.trip, tk.status,
                                       UsersOf(tk.trip), FALSE)})
    /\ UNCHANGED <<reservations, overlay, maintenance, notified, now, webhook,
                   cr, cron, personal, reminders, out>>

\* client.post(&webhook_url).json(&payload).send(): delivered or failed, logged
TaskPost(tk, delivered) ==
    /\ BagIn(tk, tasks)
    /\ tk.pc = "post"
    /\ out' = Message(tk.status, tk.trip, tk.recipients,
                      delivered /\ webhook = "url")
    /\ tasks' = Returned(tk)
    /\ UNCHANGED <<reservations, overlay, maintenance, notified, now, webhook,
                   cr, cron, personal, reminders>>

\* faulty variant: the cascade removes a single row of the trip
CascadeFirstRow(t) ==
    IF RowsOf(t) = {} THEN {}
    ELSE {CHOOSE r \in RowsOf(t) : \A q \in RowsOf(t) : r.seat <= q.seat}

\* DELETE FROM reservations WHERE trip_id = $1
CascadeRows(t) == RowsOf(t)

\* the DELETE, then println!("... {}", res.rows_affected()); the task ends
TaskDelete(tk) ==
    /\ BagIn(tk, tasks)
    /\ tk.pc = "delete"
    /\ reservations' = reservations \ CascadeRows(tk.trip)
    /\ out' = Printed(tk.trip, CascadeRows(tk.trip))
    /\ tasks' = tasks (-) SetToBag({tk})
    /\ UNCHANGED <<overlay, maintenance, notified, now, webhook, cr, cron,
                   personal, reminders>>

(* ------------------------------------------------------------------ *)
(* run_cron_job and send_reminder_notification                         *)
(* ------------------------------------------------------------------ *)
\* faulty variant: the query misses AND notification_sent = FALSE
DueTripsIgnoringFlag(at) == {t \in Trips : InWindow(t, at)}

\* faulty variant: the query looks back instead of ahead and finds nothing
DueTripsNone(at) == {t \in Trips : InWindow(t, at) /\ Departure(t) < at}

\* the rows the scheduler's query returns
DueTrips(at) == {t \in Trips : InWindow(t, at) /\ ~notified[t]}

\* what the loop does once a row is finished
CronNext(rows) == IF rows = {} THEN "sleep" ELSE "remind"

\* interval.tick(), Local::now(), the query
CronTick ==
    /\ cron.pc = "sleep"
    /\ cron' = [cron EXCEPT !.at = now, !.rows = DueTrips(now),
                            !.pc = CronNext(DueTrips(now))]
    /\ UNCHANGED <<reservations, overlay, maintenance, notified, now, webhook,
                   cr, tasks, personal, reminders, out>>

\* send_reminder_notification up to the POST: false without users or webhook
CronRemind(t) ==
    /\ cron.pc = "remind"
    /\ t \in cron.rows
    /\ cron' = IF UsersOf(t) = {} \/ WebhookEmpty
               THEN [cron EXCEPT !.rows = @ \ {t}, !.pc = CronNext(cron.rows \ {t})]
               ELSE [cron EXCEPT !.pc = "post", !.trip = t,
                                 !.recipients = UsersOf(t)]
    /\ UNCHANGED <<reservations, overlay, maintenance, notified, now, webhook,
                   cr, tasks, personal, reminders, out>>

\* the POST, its result dropped; send_reminder_notification returns true
CronPost(delivered) ==
    /\ cron.pc = "post"
    /\ out' = Message("periodic", cron.trip, cron.recipients, delivered)
    /\ reminders' = [reminders EXCEPT ![cron.trip] = Append(@, cron.at)]
    /\ cron' = [cron EXCEPT !.pc = "mark"]
    /\ UNCHANGED <<reservations, overlay, maintenance, notified, now, webhook,
                   cr, tasks, personal>>

\* faulty variant: the UPDATE misses WHERE trip_id = $1
MarkNotifiedAll(t) == [s \in Trips |-> TRUE]

\* if sent { UPDATE trips SET notification_sent = TRUE WHERE trip_id = $1 }
MarkNotified(t) == [notified EXCEPT ![t] = TRUE]

CronMark ==
    /\ cron.pc = "mark"
    /\ notified' = MarkNotified(cron.trip)
    /\ cron' = [cron EXCEPT !.rows = @ \ {cron.trip}, !.trip = NoTrip,
                            !.recipients = {},
                            !.pc = CronNext(cron.rows \ {cron.trip})]
    /\ UNCHANGED <<reservations, overlay, maintenance, now, webhook, cr, tasks,
                   personal, reminders, out>>

\* no trip has had MaxReminders periodic reminders yet
MayFail == \A t \in Trips : Len(reminders[t]) < MaxReminders

\* the UPDATE fails and let _ = drops the error: the loop goes on to the next
\* row with notification_sent still FALSE
CronMarkFails ==
    /\ cron.pc = "mark"
    /\ MayFail
    /\ cron' = [cron EXCEPT !.rows = @ \ {cron.trip}, !.trip = NoTrip,
                            !.recipients = {},
                            !.pc = CronNext(cron.rows \ {cron.trip})]
    /\ UNCHANGED <<reservations, overlay, maintenance, notified, now, webhook,
                   cr, tasks, personal, reminders, out>>

\* the process stops inside the loop and main spawns run_cron_job again
CronRestart ==
    /\ cron.pc # "sleep"
    /\ MayFail
    /\ cron' = IdleCron
    /\ UNCHANGED <<reservations, overlay, maintenance, notified, now, webhook,
                   cr, tasks, personal, reminders, out>>

\* time passes
AdvanceClock ==
    /\ \E i \in Instants : i > now /\ now' = i
    /\ UNCHANGED <<reservations, overlay, maintenance, notified, webhook, cr,
                   tasks, cron, personal, reminders, out>>

(* ------------------------------------------------------------------ *)
(* Specifications                                                      *)
(* ------------------------------------------------------------------ *)
\* the steps of a create_reservation request after its gate
CreateSteps ==
    \/ \E r \in BagToSet(cr) : CreateTripCheck(r)
    \/ \E r \in BagToSet(cr) : CreateReadSeat(r)
    \/ \E r \in BagToSet(cr) : CreateInsert(r)

TaskSteps ==
    \/ \E tk \in BagToSet(tasks) : TaskNotify(tk)
    \/ \E tk \in BagToSet(tasks), delivered \in BOOLEAN : TaskPost(tk, delivered)
    \/ \E tk \in BagToSet(tasks) : TaskDelete(tk)

\* Bursts: nothing but bookings, the maintenance gate open.  No notification
\* task runs, so the webhook is never read.
InitBurst == Init /\ maintenance # "true" /\ webhook = "url"

NextBurst ==
    \/ \E t \in Trips \cup {NoTrip}, u \in Users : CreateGate(t, u)
    \/ CreateSteps

SpecBurst == InitBurst /\ [][NextBurst]_vars

\* Seat allocation: concurrent bookings, cancellations and forced deletes,
\* the maintenance gate open.
InitAlloc == Init /\ maintenance = "false" /\ webhook = "url"

NextAlloc ==
    \/ \E t \in Trips, u \in Users : CreateGate(t, u)
    \/ CreateSteps
    \/ \E id \in ReservationIds, u \in Users : cancel_reservation(id, u)
    \/ \E id \in ReservationIds : admin_delete_reservation(id)

SpecAlloc == InitAlloc /\ [][NextAlloc]_vars

\* Maintenance gate: bookings racing with the maintenance switch.
InitGate == Init /\ webhook = "url"

NextGate ==
    \/ NextBurst
    \/ \E enabled \in BOOLEAN, actor \in Actors : set_maintenance_status(enabled, actor)

SpecGate == InitGate /\ [][NextGate]_vars

\* Status machine: the status changes of one trip and their tasks, racing
\* with the bookings of that trip.
InitStatus == Init /\ maintenance = "false" /\ webhook # "empty"

StatusTrips == {"t1"}

NextStatus ==
    \/ \E t \in StatusTrips, u \in Users : CreateGate(t, u)
    \/ CreateSteps
    \/ \E t \in StatusTrips, s \in StatusInputs : insert_status(Admin, t, s, "NULL")
    \/ \E actor \in Actors \ {Admin}, t \in StatusTrips :
          insert_status(actor, t, "cancelled", "NULL")
    \/ TaskSteps

SpecStatus == InitStatus /\ [][NextStatus]_vars

\* Reservation rows under every operation that writes them: bookings,
\* cancellations, forced deletes, and the administrator's cancellations
\* with their cascade and resets of the trip.
InitRows == InitStatus /\ webhook = "url"

NextRows ==
    \/ \E t \in StatusTrips, u \in Users : CreateGate(t, u)
    \/ CreateSteps
    \/ \E t \in StatusTrips, s \in {"scheduled", "cancelled"} :
          insert_status(Admin, t, s, "NULL")
    \/ TaskSteps
    \/ \E id \in (StatusTrips \X Users) \cup {NoId}, u \in Users :
          cancel_reservation(id, u)
    \/ \E id \in (StatusTrips \X Users) \cup {NoId} :
          admin_delete_reservation(id)

SpecRows == InitRows /\ [][NextRows]_vars

\* Reminder scheduler: ticks racing with the clock and with one user's
\* bookings and cancellations on every trip.
InitCron == Init /\ maintenance = "false"

CronUsers == {"u1"}

NextCron ==
    \/ \E t \in Trips, u \in CronUsers : CreateGate(t, u)
    \/ CreateSteps
    \/ \E id \in ReservationIds, u \in CronUsers : cancel_reservation(id, u)
    \/ CronTick
    \/ \E t \in Trips : CronRemind(t)
    \/ \E delivered \in BOOLEAN : CronPost(delivered)
    \/ CronMark
    \/ AdvanceClock

SpecCron == InitCron /\ [][NextCron]_vars

\* the scheduler's loop never stops: interval.tick() fires every minute and
\* every statement of the loop body returns
CronFairness ==
    /\ WF_vars(CronTick)
    /\ WF_vars(\E t \in Trips : CronRemind(t))
    /\ WF_vars(\E delivered \in BOOLEAN : CronPost(delivered))
    /\ WF_vars(CronMark)

SpecCronLive == SpecCron /\ CronFairness

\* Cancellations: the travellers of one trip booking and cancelling, each
\* with every id issued for the trip, their own or not.
InitCancel == Init /\ maintenance = "false" /\ webhook = "url"

CancelIds == StatusTrips \X Users

NextCancel ==
    \/ \E t \in StatusTrips, u \in Users : CreateGate(t, u)
    \/ CreateSteps
    \/ \E id \in CancelIds, u \in Users : cancel_reservation(id, u)

SpecCancel == InitCancel /\ [][NextCancel]_vars

\* Status changes: the administrator setting every status with and without
\* a description on every trip, one traveller booking the first trip.
InitOverlay == InitStatus /\ webhook = "url"

Targets == {"scheduled", "delayed", "cancelled"}

NextOverlay ==
    \/ \E t \in StatusTrips, u \in CronUsers : CreateGate(t, u)
    \/ CreateSteps
    \/ \E t \in Trips, s \in Targets, d \in Descriptions :
            insert_status(Admin, t, s, d)
    \/ TaskSteps

SpecOverlay == InitOverlay /\ [][NextOverlay]_vars

\* Privilege: every actor asking for every status and for both values of
\* the maintenance flag, one traveller booking the first trip.
InitPrivilege == Init /\ webhook = "url"

NextPrivilege ==
    \/ \E t \in StatusTrips, u \in CronUsers : CreateGate(t, u)
    \/ CreateSteps
    \/ \E actor \in Actors, t \in StatusTrips, s \in StatusInputs :
            insert_status(actor, t, s, "NULL")
    \/ TaskSteps
    \/ \E enabled \in BOOLEAN, actor \in Actors :
            set_maintenance_status(enabled, actor)

SpecPrivilege == InitPrivilege /\ [][NextPrivilege]_vars

\* Last-minute bookings: the travellers booking at every instant, the
\* personal reminders being sent, the sink configured or not.
InitLastMinute == Init /\ maintenance = "false"

NextLastMinute ==
    \/ \E t \in Trips, u \in Users : CreateGate(t, u)
    \/ CreateSteps
    \/ \E m \in personal, delivered \in BOOLEAN : PersonalReminder(m, delivered)
    \/ AdvanceClock

SpecLastMinute == InitLastMinute /\ [][NextLastMinute]_vars

\* Notifications: one traveller booking a trip at every instant and the
\* administrator delaying and cancelling it, with the sink unset, empty or
\* configured and every delivery succeeding or failing.
InitIsolation == Init /\ maintenance = "false"

NextIsolation ==
    \/ \E t \in StatusTrips, u \in CronUsers : CreateGate(t, u)
    \/ CreateSteps
    \/ \E t \in StatusTrips, s \in Upserted : insert_status(Admin, t, s, "NULL")
    \/ TaskSteps
    \/ \E m \in personal, delivered \in BOOLEAN : PersonalReminder(m, delivered)
    \/ AdvanceClock

SpecIsolation == InitIsolation /\ [][NextIsolation]_vars

\* Cascade: the travellers booking one trip while the administrator
\* delays, cancels and resets it, the sink configured.
InitCascade == InitStatus /\ webhook = "url"

NextCascade ==
    \/ \E t \in StatusTrips, u \in Users : CreateGate(t, u)
    \/ CreateSteps
    \/ \E t \in StatusTrips, s \in Targets : insert_status(Admin, t, s, "NULL")
    \/ TaskSteps

SpecCascade == InitCascade /\ [][NextCascade]_vars

\* Gate scope: every operation on one trip and its traveller while the
\* administrator switches the maintenance mode on and off.
InitScope == Init /\ maintenance # "absent" /\ webhook = "url"

ScopeIds == (StatusTrips \X CronUsers) \cup {NoId}

NextScope ==
    \/ \E t \in StatusTrips, u \in CronUsers : CreateGate(t, u)
    \/ CreateSteps
    \/ \E id \in ScopeIds, u \in CronUsers : cancel_reservation(id, u)
    \/ \E id \in ScopeIds : admin_delete_reservation(id)
    \/ \E t \in StatusTrips, s \in StatusInputs : insert_status(Admin, t, s, "NULL")
    \/ TaskSteps
    \/ CronTick
    \/ \E t \in Trips : CronRemind(t)
    \/ \E delivered \in BOOLEAN : CronPost(delivered)
    \/ CronMark
    \/ AdvanceClock
    \/ \E enabled \in BOOLEAN : set_maintenance_status(enabled, Admin)

SpecScope == InitScope /\ [][NextScope]_vars

\* Scheduler failures: the scheduler of one booked trip with its UPDATE
\* failing and the process restarting.
InitWorkers == InitCron /\ webhook = "url"

NextWorkers ==
    \/ \E t \in Trips, u \in CronUsers : CreateGate(t, u)
    \/ CreateSteps
    \/ CronTick
    \/ \E t \in Trips : CronRemind(t)
    \/ \E delivered \in BOOLEAN : CronPost(delivered)
    \/ CronMark
    \/ CronMarkFails
    \/ CronRestart
    \/ AdvanceClock

SpecWorkers == InitWorkers /\ [][NextWorkers]_vars

\* One call at a time: a booking, a cancellation, a status change with its
\* task or a switch of the maintenance mode starts only when no request is
\* in flight and no task is pending.
InitSequential == Init /\ webhook = "url"

Quiet == cr = EmptyBag /\ tasks = EmptyBag

NextSequential ==
    \/ Quiet /\ \E t \in Trips \cup {NoTrip}, u \in Users : CreateGate(t, u)
    \/ CreateSteps
    \/ Quiet /\ \E id \in ReservationIds, u \in Users : cancel_reservation(id, u)
    \/ Quiet /\ \E t \in Trips, s \in {"scheduled", "cancelled"} :
                    insert_status(Admin, t, s, "NULL")
    \/ TaskSteps
    \/ Quiet /\ \E enabled \in BOOLEAN : set_maintenance_status(enabled, Admin)

SpecSequential == InitSequential /\ [][NextSequential]_vars

\* The notified flag: one traveller booking and cancelling on one trip, the
\* administrator cancelling and resetting it and deleting reservations, the
\* personal reminders and the scheduler.
InitFlag == InitCron /\ webhook = "url"

NextFlag ==
    \/ \E t \in StatusTrips, u \in CronUsers : CreateGate(t, u)
    \/ CreateSteps
    \/ \E id \in ScopeIds, u \in CronUsers : cancel_reservation(id, u)
    \/ \E id \in ScopeIds : admin_delete_reservation(id)
    \/ \E t \in StatusTrips, s \in {"scheduled", "cancelled"} :
            insert_status(Admin, t, s, "NULL")
    \/ TaskSteps
    \/ \E m \in personal, delivered \in BOOLEAN : PersonalReminder(m, delivered)
    \/ CronTick
    \/ \E t \in Trips : CronRemind(t)
    \/ \E delivered \in BOOLEAN : CronPost(delivered)
    \/ CronMark
    \/ AdvanceClock

SpecFlag == InitFlag /\ [][NextFlag]_vars

\* The gate and its readers: bookings, reads and switches of the
\* maintenance mode, from every settings store.
InitOpen == Init /\ webhook = "url"

NextOpen ==
    \/ NextGate
    \/ get_maintenance_status

SpecOpen == InitOpen /\ [][NextOpen]_vars

\* Everything together.
Next ==
    \/ NextAlloc
    \/ NextGate
    \/ NextStatus
    \/ NextCron
    \/ \E actor \in Actors, t \in Trips, s \in StatusInputs, d \in Descriptions :
          insert_status(actor, t, s, d)
    \/ get_maintenance_status
    \/ \E m \in personal, delivered \in BOOLEAN : PersonalReminder(m, delivered)
    \/ CronMarkFails
    \/ CronRestart

Spec == Init /\ [][Next]_vars

(* ------------------------------------------------------------------ *)
(* Claims                                                              *)
(* ------------------------------------------------------------------ *)
\* request r returns in this step
Returns(r) == BagIn(r, cr) /\ cr' = cr (-) SetToBag({r})

\* C1: for every trip, the number of reservation rows never exceeds the
\* trip's capacity, whatever the interleaving of the storage steps of
\* concurrent create_reservation calls.
C1_CapacityInvariant ==
    \A t \in Trips : Cardinality(RowsOf(t)) <= Capacity(t)

\* C2: no two reservation rows of one trip carry the same seat_number.
C2_SeatUniqueness ==
    \A r1 \in reservations, r2 \in reservations :
        (r1.trip = r2.trip /\ r1.seat = r2.seat) => r1 = r2

\* C3: concurrent bookings of one trip by distinct users, nothing else
\* running, end with exactly C successes and CapacityExceeded for the rest:
\* the successes never outnumber the capacity, their seats are 1, 2, ... in
\* turn without gap or repeat, and CapacityExceeded is answered only once
\* the trip holds C rows.
C3_BurstOutcome ==
    /\ \A t \in Trips :
          /\ Cardinality(RowsOf(t)) <= Capacity(t)
          /\ {r.seat : r \in RowsOf(t)} = 1..Cardinality(RowsOf(t))
    /\ (out.op = "create_reservation" /\ out.code = "CapacityExceeded") =>
          Cardinality(RowsOf(out.trip)) = Capacity(out.trip)
    /\ out.code \notin {"Internal", "ServiceUnavailable"}

\* C4: every reservation row has 1 <= seat_number <= capacity of its trip.
C4_SeatRange ==
    \A r \in reservations : 1 <= r.seat /\ r.seat <= Capacity(r.trip)

\* a row holds the last seat of its trip, a lower seat was freed, and the
\* booking that would have taken the seat after the last was refused
C4_Witness ==
    \E r \in reservations :
        /\ r.seat = Capacity(r.trip)
        /\ Cardinality(RowsOf(r.trip)) < Capacity(r.trip)
        /\ out = Response("create_reservation", r.trip, "CapacityExceeded")

\* request r returns in this step while its user holds a row of its trip
DuplicateReturn(r) ==
    /\ r.pc \in {"seat", "insert"}
    /\ Returns(r)
    /\ UniqueViolation(r.trip, r.user)

\* the seat number request r works with
Computed(r) == IF r.pc = "seat" THEN NextSeat(r.trip) ELSE r.next_seat

UserUniqueness ==
    \A r1 \in reservations, r2 \in reservations :
        (r1.trip = r2.trip /\ r1.user = r2.user) => r1 = r2

\* C5 as stated: a booking by a user who already holds a reservation on the
\* trip returns Conflict and adds no row; a user holds at most one row per trip.
C5_DuplicateIsConflict ==
    /\ [][\A r \in BagToSet(cr) : DuplicateReturn(r) =>
            /\ out'.code = "Conflict"
            /\ reservations' = reservations]_vars
    /\ []UserUniqueness

\* C5 amended: such a booking returns Conflict when the seat number it
\* computed is within capacity and CapacityExceeded when it is not (the
\* capacity check comes first); it never adds a row, and a user holds at
\* most one row per trip.
C5_DuplicateRejected ==
    /\ [][\A r \in BagToSet(cr) : DuplicateReturn(r) =>
            /\ out'.op = "create_reservation"
            /\ out'.code = IF Computed(r) > Capacity(r.trip)
                           THEN "CapacityExceeded" ELSE "Conflict"
            /\ reservations' = reservations]_vars
    /\ []UserUniqueness

\* a duplicate booking reached the insert and was answered Conflict
C5_Witness ==
    /\ out.op = "create_reservation"
    /\ out.code = "Conflict"
    /\ \E r \in reservations : r.trip = out.trip
    /\ UserUniqueness

\* C6: a create_reservation that starts with the maintenance flag on returns
\* ServiceUnavailable and creates no reservation, whatever the trip and
\* user: no request gets past the gate, and the response given at the gate
\* is ServiceUnavailable with the rows untouched.
C6_MaintenanceGate ==
    [][maintenance = "true" =>
         /\ BagCardinality(cr') <= BagCardinality(cr)
         /\ (cr' = cr /\ out' # out /\ out'.op = "create_reservation") =>
               /\ out'.code = "ServiceUnavailable"
               /\ reservations' = reservations]_vars

\* a booking of a trip with a free seat was refused by the gate
C6_Witness ==
    /\ maintenance = "true"
    /\ out.op = "create_reservation"
    /\ out.code = "ServiceUnavailable"
    /\ out.trip \in Trips
    /\ Cardinality(RowsOf(out.trip)) < Capacity(out.trip)

\* request r runs its cancelled check in this step
TripCheckStep(r) == r.pc = "trip" /\ CopiesIn(r, cr') < CopiesIn(r, cr)

\* task tk runs its cascade delete in this step
CascadeStep(tk) ==
    tk.pc = "delete" /\ CopiesIn(tk, tasks') < CopiesIn(tk, tasks)

\* C7: the cascade delete of a cancellation leaves the trip without
\* reservation rows, and a create_reservation whose status check finds the
\* trip cancelled returns ServiceUnavailable and creates no row.
C7_CancellationCascade ==
    /\ [][\A tk \in BagToSet(tasks) :
            CascadeStep(tk) =>
                {r \in reservations' : r.trip = tk.trip} = {}]_vars
    /\ [][\A r \in BagToSet(cr) :
            (TripCheckStep(r) /\ r.trip \in Trips
                              /\ StatusOf(r.trip) = "cancelled") =>
                /\ Returns(r)
                /\ out' = Response("create_reservation", r.trip,
                                   "ServiceUnavailable")
                /\ reservations' = reservations]_vars

\* the cascade has just removed the rows of two travellers, the trip is
\* cancelled and empty, and a booking of the trip stands at its status check
C7_Witness ==
    \E t \in Trips :
        /\ StatusOf(t) = "cancelled"
        /\ RowsOf(t) = {}
        /\ out.op = "println" /\ out.trip = t /\ Cardinality(out.to) = 2
        /\ \E r \in BagToSet(cr) : r.pc = "trip" /\ r.trip = t

\* C8: within one transition to Cancelled, the recipients are read before
\* the cascade delete, and the delete starts only after the notification
\* attempt has returned.
C8_NotifyThenDelete ==
    \A tk \in BagToSet(tasks) :
        /\ tk.pc = "delete" => tk.returned /\ tk.status = "cancelled"
        /\ tk.pc \in {"notify", "post"} => ~tk.returned
        /\ tk.pc = "notify" => tk.recipients = {}

\* the cancellation has been posted to the trip's two travellers and its
\* task stands before the cascade delete
C8_Witness ==
    \E tk \in BagToSet(tasks) :
        /\ tk.pc = "delete"
        /\ tk.returned
        /\ Cardinality(tk.recipients) = 2
        /\ UsersOf(tk.trip) = tk.recipients
        /\ out = Message("cancelled", tk.trip, tk.recipients, TRUE)

\* C9: with the sink configured, every reservation the cascade delete
\* removes belongs to a user in the recipient list of that cancellation.
C9_ToldBeforeRemoved ==
    [][\A tk \in BagToSet(tasks) :
         (CascadeStep(tk) /\ webhook = "url") =>
             UsersOf(tk.trip) \subseteq tk.recipients]_vars

\* the scheduler handles due trip t in this step: send_reminder_notification
\* either goes on to its POST or returns false
Handles(t) ==
    /\ cron.pc = "remind"
    /\ t \in cron.rows
    /\ \/ cron'.pc = "post" /\ cron'.trip = t
       \/ t \notin cron'.rows

\* at most one periodic reminder per trip; the flag is set right after the
\* one dispatch and a trip whose flag is set was reminded once
AtMostOnce ==
    \A t \in Trips :
        /\ Len(reminders[t]) <= 1
        /\ notified[t] => Len(reminders[t]) = 1
        /\ (Len(reminders[t]) = 1 /\ ~notified[t]) =>
              (cron.pc = "mark" /\ cron.trip = t)

\* C10 as stated: a due trip with at least one reservation gets exactly one
\* dispatch in the tick and then notified = true; later ticks skip it.
C10_ReminderOnce ==
    /\ [][\A t \in Trips :
            (Handles(t) /\ UsersOf(t) # {}) =>
                (cron'.pc = "post" /\ cron'.trip = t)]_vars
    /\ []AtMostOnce

\* C10 amended: the dispatch happens when the sink is configured; with
\* TEAMS_WEBHOOK_URL unset or empty the tick sends nothing and leaves
\* notified = false.  In both cases a trip gets at most one periodic reminder.
C10_ReminderOnceConfigured ==
    /\ [][\A t \in Trips :
            (Handles(t) /\ UsersOf(t) # {}) =>
                IF WebhookEmpty
                THEN t \notin cron'.rows /\ cron'.pc # "post"
                     /\ notified' = notified /\ reminders' = reminders
                ELSE cron'.pc = "post" /\ cron'.trip = t]_vars
    /\ []AtMostOnce

\* a trip was reminded once by an earlier tick, its flag is set, and a later
\* tick that still finds it in the window with a traveller has skipped it
C10_Witness ==
    \E t \in Trips :
        /\ notified[t]
        /\ Len(reminders[t]) = 1
        /\ reminders[t][1] < cron.at
        /\ cron.pc = "sleep"
        /\ InWindow(t, cron.at)
        /\ UsersOf(t) # {}

\* the scheduler marks trip t in this step
Marks(t) == ~notified[t] /\ notified'[t]

\* the scheduler's step after the POST of a reminder
AfterPost == cron.pc = "mark" /\ cron' # cron

MarkedOnlyWithRecipient ==
    /\ [][\A t \in Trips :
            Marks(t) => (cron.pc = "mark" /\ cron.trip = t
                                          /\ cron.recipients # {})]_vars
    /\ [][\A t \in Trips :
            (Handles(t) /\ UsersOf(t) = {}) =>
                (notified' = notified /\ cron'.pc # "post")]_vars
    /\ [][AfterPost => notified'[cron.trip]]_vars

\* C11 as stated: notified is set only by a dispatch that had a recipient,
\* never for a trip whose dispatch found no reservation, and always when the
\* dispatch found one.
C11_MarkedIffRecipient ==
    /\ MarkedOnlyWithRecipient
    /\ [][\A t \in Trips :
            Handles(t) => (cron'.pc = "post" <=> UsersOf(t) # {})]_vars

\* C11 amended: notified is set only by a dispatch that had a recipient and
\* whose message was handed to the sink; a dispatch that finds no reservation,
\* or finds the sink unconfigured, leaves the flag as it was.
C11_MarkedIffPosted ==
    /\ MarkedOnlyWithRecipient
    /\ [][\A t \in Trips :
            Handles(t) =>
                (cron'.pc = "post" <=> (UsersOf(t) # {} /\ webhook = "url"))]_vars
    /\ [][\A t \in Trips :
            (Handles(t) /\ cron'.pc # "post") => notified' = notified]_vars

\* one tick found two due trips: it reminded the traveller of one and marked
\* it, it found no reservation for the other and left it unmarked
C11_Witness ==
    \E t \in Trips, s \in Trips :
        /\ cron.pc = "sleep"
        /\ InWindow(t, cron.at) /\ InWindow(s, cron.at)
        /\ notified[s] /\ reminders[s] = <<cron.at>>
        /\ ~notified[t] /\ reminders[t] = <<>>

\* trip t is due at this instant and a traveller holds a reservation on it
Due(t) == InWindow(t, now) /\ ~notified[t] /\ UsersOf(t) # {}

\* trip t has been marked, or has lost its travellers, or has left the window
Settled(t) == notified[t] \/ UsersOf(t) = {} \/ ~InWindow(t, now)

Deferred ==
    [][\A t \in Trips :
         (Handles(t) /\ UsersOf(t) = {}) =>
             (notified' = notified /\ reminders' = reminders)]_vars

Owned(id, u) == {r \in reservations : r.id = id /\ r.user = u}

\* C13: cancel_reservation(id, u) deletes a row only when both the id and
\* the owner match, and then exactly that row, answering Ok; for another
\* user's reservation it answers NotFound, as for an id that names no row,
\* and leaves every row unchanged.
C13_OwnershipScoped ==
    [][\A id \in ReservationIds, u \in Users :
         cancel_reservation(id, u) =>
             IF Owned(id, u) # {}
             THEN /\ out'.code = "Ok"
                  /\ reservations' = reservations \ Owned(id, u)
                  /\ Cardinality(reservations') = Cardinality(reservations) - 1
             ELSE /\ out'.code = "NotFound"
                  /\ reservations' = reservations]_vars

\* both travellers hold a row of the trip, so every id of the trip names a
\* row, and the last cancellation was answered NotFound: it was made with
\* the other traveller's id
C13_Witness ==
    /\ out = Response("cancel_reservation", NoTrip, "NotFound")
    /\ \A id \in CancelIds : \E r \in reservations : r.id = id

\* the overlay row a trip has after its status was set to s with text d
Target(s, d) == IF s = "scheduled" THEN NoRow
                ELSE [status |-> s, description |-> d]

\* C14: the administrator's insert_status with a target among scheduled,
\* delayed and cancelled answers Ok whatever the trip's status was, and
\* afterwards the trip has no overlay row for scheduled and the row with the
\* given status and description otherwise, the other trips' rows being
\* untouched; scheduled on a scheduled trip changes nothing at all.
C14_StatusTransitions ==
    [][\A t \in Trips, s \in Targets, d \in Descriptions :
         insert_status(Admin, t, s, d) =>
             /\ out' = Response("insert_status", t, "Ok")
             /\ overlay' = [overlay EXCEPT ![t] = Target(s, d)]
             /\ reservations' = reservations
             /\ (s = "scheduled" /\ overlay[t] = NoRow) =>
                    (overlay' = overlay /\ tasks' = tasks)]_vars

\* a trip was cancelled, its task has not run yet, and the trip was set
\* back to scheduled: cancelled is no terminal state
C14_Witness ==
    \E tk \in BagToSet(tasks) :
        /\ tk.status = "cancelled"
        /\ tk.pc = "notify"
        /\ overlay[tk.trip] = NoRow
        /\ out = Response("insert_status", tk.trip, "Ok")

\* what no refused call may touch
Untouched ==
    UNCHANGED <<overlay, reservations, maintenance, tasks, personal, notified>>

\* C15: insert_status and set_maintenance_status asked by an actor who is
\* unknown or not an administrator answer Forbidden for every target and
\* every flag value, change no overlay row, no reservation and not the
\* maintenance flag, and spawn no task.
C15_Forbidden ==
    [][\A actor \in Actors \ {Admin} :
         /\ \A t \in StatusTrips, s \in StatusInputs :
                insert_status(actor, t, s, "NULL") =>
                    (out' = Response("insert_status", t, "Forbidden") /\ Untouched)
         /\ \A enabled \in BOOLEAN :
                set_maintenance_status(enabled, actor) =>
                    (out' = Response("set_maintenance_status", NoTrip, "Forbidden")
                     /\ Untouched)]_vars

\* a status change was refused on a trip that is booked and scheduled, and
\* no task is pending
C15_Witness ==
    \E t \in Trips :
        /\ out = Response("insert_status", t, "Forbidden")
        /\ UsersOf(t) # {}
        /\ overlay[t] = NoRow
        /\ tasks = EmptyBag

\* C16: the administrator's insert_status with a target that is none of
\* scheduled, delayed and cancelled answers BadRequest, changes neither the
\* overlay rows nor the reservations, and spawns no task.
C16_BadRequest ==
    [][\A t \in StatusTrips, s \in StatusInputs \ Targets :
         insert_status(Admin, t, s, "NULL") =>
             /\ out' = Response("insert_status", t, "BadRequest")
             /\ UNCHANGED <<overlay, reservations, tasks>>]_vars

\* an unknown target was refused on a delayed trip that is booked; the
\* overlay row and the reservation are still there and no task is pending
C16_Witness ==
    \E t \in Trips :
        /\ out = Response("insert_status", t, "BadRequest")
        /\ UsersOf(t) # {}
        /\ overlay[t].status = "delayed"
        /\ tasks = EmptyBag

\* the departure of trip t is ahead of instant at by at most 120 minutes
WithinTwoHours(t, at) ==
    /\ Departure(t) - at > 0
    /\ Departure(t) - at <= WindowSeconds

\* C17: a create_reservation that returns schedules a personal reminder, for
\* the booking user only, exactly when it answers Created and the departure
\* is ahead by at most 120 minutes; a departure in the past or more than 120
\* minutes ahead (120 minutes and 30 seconds, say) and a failed booking
\* schedule none, and no pending reminder is dropped.
C17_LastMinuteReminder ==
    [][\A r \in BagToSet(cr) :
         Returns(r) =>
             LET m == [trip |-> r.trip, user |-> r.user] IN
             /\ personal \subseteq personal'
             /\ personal' \subseteq personal \cup {m}
             /\ (m \in personal' \ personal) <=>
                    (out'.code = "Created" /\ WithinTwoHours(r.trip, now))]_vars

\* task tk takes a step of send_teams_notification
NotifyStep(tk) ==
    /\ tk.pc \in {"notify", "post"}
    /\ CopiesIn(tk, tasks') < CopiesIn(tk, tasks)

\* the tasks of bag b that stand at pc
At(b, pc) == {q \in BagToSet(b) : q.pc = pc}

\* how many tasks of bag b stand at pc
Count(b, pc) == BagCardinality([q \in At(b, pc) |-> CopiesIn(q, b)])

\* how many tasks of bag b are inside send_teams_notification
InNotify(b) == Count(b, "notify") + Count(b, "post")

\* the step ends send_teams_notification in task tk
NotifyEnds(tk) == NotifyStep(tk) /\ InNotify(tasks') < InNotify(tasks)

\* C18: a notification attempt, whatever its outcome, changes no row, no
\* overlay and no request in flight and replaces no handler's answer by an
\* error; it is not started again; when it ends in the task of a
\* cancellation the cascade delete is the task's next step; and the calls
\* that trigger a notification answer Ok and Created whatever the sink.
C18_FailuresIsolated ==
    /\ [][\A tk \in BagToSet(tasks) : NotifyStep(tk) =>
            /\ UNCHANGED <<reservations, overlay, cr, personal>>
            /\ out' = out \/ out'.op = "post"
            /\ InNotify(tasks') <= InNotify(tasks)
            /\ Count(tasks', "notify") <= Count(tasks, "notify")
            /\ tk.pc = "post" => NotifyEnds(tk)]_vars
    /\ [][\A tk \in BagToSet(tasks) :
            (NotifyEnds(tk) /\ tk.status = "cancelled") =>
                \E q \in At(tasks', "delete") :
                    /\ q.trip = tk.trip
                    /\ CopiesIn(q, tasks') > CopiesIn(q, tasks)]_vars
    /\ [][\A m \in personal : m \notin personal' =>
            /\ UNCHANGED <<reservations, overlay, cr, tasks>>
            /\ personal' = personal \ {m}
            /\ out' = out \/ out'.op = "post"]_vars
    /\ [][\A t \in StatusTrips, s \in Upserted :
            insert_status(Admin, t, s, "NULL") =>
                out' = Response("insert_status", t, "Ok")]_vars
    /\ [][\A r \in BagToSet(cr) :
            (Returns(r) /\ reservations' # reservations) =>
                out' = Response("create_reservation", r.trip, "Created")]_vars

\* the notification of a cancellation was posted and failed, and the task
\* stands before its DELETE with the trip's row still there
C18_Witness ==
    \E tk \in BagToSet(tasks) :
        /\ tk.pc = "delete"
        /\ out = Message("cancelled", tk.trip, tk.recipients, FALSE)
        /\ tk.recipients # {}
        /\ UsersOf(tk.trip) # {}

\* task tk takes a step
TaskStep(tk) == CopiesIn(tk, tasks') < CopiesIn(tk, tasks)

\* C19: no step of the task of a status other than cancelled and no
\* insert_status call itself changes a reservation row; the DELETE of a
\* cancellation's task removes the trip's rows and no others; in this
\* system of bookings and status changes a row disappears only in that
\* DELETE; and the trip stays known to create_reservation.
C19_CascadeOnlyOnCancellation ==
    /\ [][\A tk \in BagToSet(tasks) :
            (TaskStep(tk) /\ tk.status # "cancelled") =>
                reservations' = reservations]_vars
    /\ [][\A t \in StatusTrips, s \in Targets :
            insert_status(Admin, t, s, "NULL") =>
                reservations' = reservations]_vars
    /\ [][\A tk \in BagToSet(tasks) :
            CascadeStep(tk) =>
                (tk.status = "cancelled"
                 /\ reservations' = reservations \ RowsOf(tk.trip))]_vars
    /\ [][~(reservations \subseteq reservations') =>
            \E tk \in BagToSet(tasks) : CascadeStep(tk)]_vars
    /\ [](out.op = "create_reservation" => out.code # "NotFound")

\* the delay of a trip was posted to its two travellers, the task has
\* ended, and both rows are still there
C19_Witness ==
    \E t \in Trips :
        /\ out = Message("delayed", t, UsersOf(t), TRUE)
        /\ Cardinality(RowsOf(t)) = 2
        /\ StatusOf(t) = "delayed"
        /\ tasks = EmptyBag

\* the answer to a DELETE of the rows found
Deleted(op, found) ==
    Response(op, NoTrip, IF found = {} THEN "NotFound" ELSE "Ok")

\* C20: whatever the maintenance flag is, cancel_reservation and
\* admin_delete_reservation remove the rows they name and answer Ok or
\* NotFound by the rows alone, insert_status answers and writes the overlay
\* by its target alone, the scheduler picks the trips by window and flag
\* notified and posts by recipients and sink alone; and only
\* set_maintenance_status changes the flag.
C20_GateScope ==
    [][/\ \A id \in ScopeIds, u \in CronUsers :
            (out'.op = "cancel_reservation" /\ cancel_reservation(id, u)) =>
                /\ reservations' = reservations \ Owned(id, u)
                /\ out' = Deleted("cancel_reservation", Owned(id, u))
       /\ \A id \in ScopeIds :
            (out'.op = "admin_delete_reservation"
             /\ admin_delete_reservation(id)) =>
                /\ reservations' = reservations \ {r \in reservations : r.id = id}
                /\ out' = Deleted("admin_delete_reservation",
                                  {r \in reservations : r.id = id})
       /\ \A t \in StatusTrips, s \in StatusInputs :
            (out'.op = "insert_status" /\ insert_status(Admin, t, s, "NULL")) =>
                IF s \in Targets
                THEN /\ out' = Response("insert_status", t, "Ok")
                     /\ overlay' = [overlay EXCEPT ![t] = Target(s, "NULL")]
                ELSE /\ out' = Response("insert_status", t, "BadRequest")
                     /\ overlay' = overlay
       /\ (cron.pc = "sleep" /\ CronTick) =>
            cron'.rows = {t \in Trips : InWindow(t, now) /\ ~notified[t]}
       /\ \A t \in Trips : Handles(t) =>
            (cron'.pc = "post" <=> UsersOf(t) # {})
       /\ \A tk \in BagToSet(tasks) : CascadeStep(tk) =>
            reservations' = reservations \ RowsOf(tk.trip)
       /\ maintenance' # maintenance => out'.op = "set_maintenance_status"]_vars

\* the maintenance mode is on and a traveller's cancellation has just
\* removed the row
C20_Witness ==
    /\ maintenance = "true"
    /\ out = Response("cancel_reservation", NoTrip, "Ok")
    /\ reservations = {}

\* C21: a trip gets at most one periodic reminder even when the UPDATE of
\* notified fails after a dispatch or the process restarts between the
\* dispatch and the UPDATE.
C21_AtMostOnceUnderFailures ==
    \A t \in Trips : Cardinality(DOMAIN reminders[t]) <= 1

\* C22: the seat counter of a trip, the number the next create_reservation
\* is given, never goes down under create_reservation, cancel_reservation and
\* admin_delete_reservation, so that a new reservation's seat_number passes
\* every seat_number assigned on the trip before.
C22_SeatCounterIncreasing ==
    [][\A t \in Trips : NextSeat(t)' >= NextSeat(t)]_vars

\* C23: after the administrator's set_maintenance_status(enabled) has
\* answered Ok, is_maintenance_mode, which get_maintenance_status and the
\* gate of create_reservation call, reads enabled, whatever the settings
\* store held before; and the value read changes in no other step.
C23_FlagRoundTrip ==
    [][/\ \A enabled \in BOOLEAN :
            set_maintenance_status(enabled, Admin) =>
                (out'.code = "Ok" /\ (is_maintenance_mode' <=> enabled))
       /\ (is_maintenance_mode' # is_maintenance_mode) =>
            out' = Response("set_maintenance_status", NoTrip, "Ok")]_vars

\* the highest seat_number among the rows of trip t, 0 without rows
MaxSeat(t) ==
    IF RowsOf(t) = {} THEN 0
    ELSE CHOOSE n \in {r.seat : r \in RowsOf(t)} :
             \A r \in RowsOf(t) : r.seat <= n

\* the reference outcome of create_reservation(t, u) in the current state
Reference(t, u) ==
    IF maintenance = "true" THEN "ServiceUnavailable"
    ELSE IF t \notin Trips THEN "NotFound"
    ELSE IF overlay[t].status = "cancelled" THEN "ServiceUnavailable"
    ELSE IF MaxSeat(t) + 1 > Capacity(t) THEN "CapacityExceeded"
    ELSE IF \E r \in reservations : r.trip = t /\ r.user = u THEN "Conflict"
    ELSE "Created"

\* C24: with one call at a time, create_reservation answers what the
\* reference gives: ServiceUnavailable under maintenance, else NotFound for
\* an absent trip, else ServiceUnavailable for a cancelled trip, else
\* CapacityExceeded when the highest seat plus one passes the capacity, else
\* Conflict for a user already booked, else Created with exactly one new
\* row whose seat is the highest seat plus one; every other answer leaves
\* the rows unchanged.
C24_SequentialReference ==
    [][/\ \A t \in Trips \cup {NoTrip}, u \in Users :
            (cr = EmptyBag /\ CreateGate(t, u)) =>
                IF maintenance = "true"
                THEN /\ out' = Response("create_reservation", t, Reference(t, u))
                     /\ cr' = cr
                     /\ reservations' = reservations
                ELSE out' = out /\ reservations' = reservations
       /\ \A r \in BagToSet(cr) :
            Returns(r) =>
                /\ out' = Response("create_reservation", r.trip,
                                   Reference(r.trip, r.user))
                /\ IF Reference(r.trip, r.user) = "Created"
                   THEN /\ \E row \in reservations' \ reservations :
                              /\ reservations' = reservations \cup {row}
                              /\ row.trip = r.trip
                              /\ row.user = r.user
                              /\ row.seat = MaxSeat(r.trip) + 1
                   ELSE reservations' = reservations]_vars

\* the second traveller of a trip has just been given seat 2 and nothing
\* is in flight
C24_Witness ==
    \E t \in Trips :
        /\ out = Response("create_reservation", t, "Created")
        /\ {r.seat : r \in RowsOf(t)} = {1, 2}
        /\ Quiet

\* C25: the notified flag of a trip changes only in the scheduler's UPDATE
\* for that trip, and only from false to true; bookings, cancellations,
\* forced deletes, status changes with their cascade and the personal
\* reminder leave every flag as it is.
C25_NotifiedFrame ==
    [][\A t \in Trips :
         /\ notified[t] => notified'[t]
         /\ notified'[t] # notified[t] =>
               /\ cron.pc = "mark" /\ cron.trip = t /\ cron'.pc # "mark"
               /\ UNCHANGED <<reservations, overlay, cr, tasks, personal>>]_vars

\* a trip was reminded and marked, has lost its rows since, and the
\* administrator has just set it to scheduled: the flag is still set
C25_Witness ==
    \E t \in Trips :
        /\ notified[t]
        /\ RowsOf(t) = {}
        /\ overlay[t] = NoRow
        /\ out = Response("insert_status", t, "Ok")
        /\ tasks = EmptyBag

\* the task of a cancellation of trip t has not finished
CascadePending(t) ==
    \E tk \in BagToSet(tasks) : tk.trip = t /\ tk.status = "cancelled"

\* C26: a trip whose status is cancelled and whose cascade delete has
\* completed has no reservation row, whatever create_reservation calls were
\* in flight during the cancellation.
C26_NoSurvivor ==
    \A t \in Trips :
        (StatusOf(t) = "cancelled" /\ ~CascadePending(t)) => RowsOf(t) = {}

\* C27: the cascade delete removes a reservation row only of a trip whose
\* status is cancelled when the DELETE runs; after a reset to scheduled or a
\* change to delayed in between it removes nothing.
C27_DeleteOnlyWhileCancelled ==
    [][\A tk \in BagToSet(tasks) :
         (CascadeStep(tk) /\ reservations' # reservations) =>
             StatusOf(tk.trip) = "cancelled"]_vars

\* C28: with one call at a time, create_reservation answers
\* CapacityExceeded only for a trip that holds as many rows as its capacity,
\* and a booking of a trip with fewer rows, not cancelled, by a user not yet
\* booked on it, is Created.
C28_ExceededMeansFull ==
    [][\A r \in BagToSet(cr) :
         Returns(r) =>
             /\ out'.code = "CapacityExceeded" =>
                   Cardinality(RowsOf(r.trip)) = Capacity(r.trip)
             /\ (/\ r.trip \in Trips
                 /\ Cardinality(RowsOf(r.trip)) < Capacity(r.trip)
                 /\ StatusOf(r.trip) # "cancelled"
                 /\ r.user \notin UsersOf(r.trip)) =>
                   out'.code = "Created"]_vars

\* C29: the scheduler posts no periodic reminder for a trip whose status is
\* cancelled when the POST is made.
C29_NoReminderForCancelled ==
    [][(cron.pc = "post" /\ cron'.pc = "mark") =>
          StatusOf(cron.trip) # "cancelled"]_vars

\* C30: while app_settings has no maintenance_mode row, is_maintenance_mode
\* is false, get_maintenance_status answers false, and create_reservation
\* passes the gate to its trip check, answering neither ServiceUnavailable
\* nor Internal there.
C30_FailsOpen ==
    /\ [](maintenance = "absent" => ~is_maintenance_mode)
    /\ [][maintenance = "absent" =>
            /\ get_maintenance_status =>
                  out' = Response("get_maintenance_status", NoTrip, "false")
            /\ \A t \in Trips \cup {NoTrip}, u \in Users :
                  CreateGate(t, u) =>
                      /\ out' = out
                      /\ cr' = cr (+) SetToBag({Request("trip", t, u, 0)})
            /\ out'.code \notin {"ServiceUnavailable", "Internal"}]_vars

\* the settings row is missing and a booking has just been created
C30_Witness ==
    \E t \in Trips :
        /\ maintenance = "absent"
        /\ out = Response("create_reservation", t, "Created")
        /\ RowsOf(t) # {}
====
